---- MODULE Spec2Model ----
(***************************************************************************)
(* A model of the AI text humanizer service: the HumanizerEngine pipeline  *)
(* (src/app/services/engine.py), the HumanizerService tier table           *)
(* (src/app/services/humanizer_service.py), the cache                      *)
(* (src/app/services/cache_service.py) and the humanize / batch endpoints  *)
(* (src/app/api/v1/humanize.py).                                           *)
(*                                                                         *)
(* Text is a sequence of one-character strings, so that Python's str       *)
(* methods (split, join, strip, lower, capitalize, replace, in) and the    *)
(* sentence-splitting regular expression are computed, not assumed.        *)
(* Characters outside ASCII are written with a stand-in character:         *)
(*   EmDash "=" for U+2014, EnDash "~" for U+2013, ZWSP "^" for U+200B.    *)
(* Numbers in [0,1] (intensity, random.random() draws) are integers in     *)
(* units of 1/10000; similarities are integers in units of 1/100.          *)
(***************************************************************************)
EXTENDS Integers, Sequences, FiniteSets, TLC

(***************************************************************************)
(* Python strings                                                          *)
(***************************************************************************)
Str(s) == [i \in 1..Len(s) |-> SubSeq(s, i, i)]

EmDash == "="
EnDash == "~"
ZWSP == "^"

IsSpace(c) == c \in {" ", "\n", "\t"}

UpperLetters == Str("ABCDEFGHIJKLMNOPQRSTUVWXYZ")
LowerLetters == Str("abcdefghijklmnopqrstuvwxyz")

LowerChar(c) ==
    IF \E k \in 1..Len(UpperLetters) : UpperLetters[k] = c
    THEN LowerLetters[CHOOSE k \in 1..Len(UpperLetters) : UpperLetters[k] = c]
    ELSE c

UpperChar(c) ==
    IF \E k \in 1..Len(LowerLetters) : LowerLetters[k] = c
    THEN UpperLetters[CHOOSE k \in 1..Len(LowerLetters) : LowerLetters[k] = c]
    ELSE c

\* str.lower()
PyLower(s) == [k \in 1..Len(s) |-> LowerChar(s[k])]

\* str.capitalize(): first character upper-cased, the rest lower-cased
PyCapitalize(s) ==
    IF s = <<>> THEN s ELSE <<UpperChar(s[1])>> \o PyLower(Tail(s))

\* str.split() with no argument: maximal runs of non-whitespace
RECURSIVE SplitAcc(_, _, _, _)
SplitAcc(s, k, word, acc) ==
    IF k > Len(s)
    THEN (IF word = <<>> THEN acc ELSE Append(acc, word))
    ELSE IF IsSpace(s[k])
         THEN SplitAcc(s, k + 1, <<>>, IF word = <<>> THEN acc ELSE Append(acc, word))
         ELSE SplitAcc(s, k + 1, Append(word, s[k]), acc)

PySplit(s) == SplitAcc(s, 1, <<>>, <<>>)

\* sep.join(parts)
RECURSIVE PyJoin(_, _)
PyJoin(sep, parts) ==
    IF parts = <<>> THEN <<>>
    ELSE IF Len(parts) = 1 THEN parts[1]
    ELSE parts[1] \o sep \o PyJoin(sep, Tail(parts))

\* str.strip()
RECURSIVE LStrip(_)
LStrip(s) == IF s # <<>> /\ IsSpace(s[1]) THEN LStrip(Tail(s)) ELSE s

RECURSIVE RStrip(_)
RStrip(s) ==
    IF s # <<>> /\ IsSpace(s[Len(s)]) THEN RStrip(SubSeq(s, 1, Len(s) - 1)) ELSE s

PyStrip(s) == RStrip(LStrip(s))

\* s[k:].startswith(sub), k counted from 1
StartsWithAt(s, sub, k) ==
    /\ k + Len(sub) - 1 <= Len(s)
    /\ SubSeq(s, k, k + Len(sub) - 1) = sub

\* sub in s (sub non-empty)
PyContains(s, sub) == \E k \in 1..Len(s) : StartsWithAt(s, sub, k)

\* str.replace(old, new, count): left to right, non-overlapping; count < 0 is "all"
RECURSIVE ReplaceAcc(_, _, _, _, _, _)
ReplaceAcc(s, old, new, k, count, acc) ==
    IF k > Len(s) THEN acc
    ELSE IF count # 0 /\ StartsWithAt(s, old, k)
         THEN ReplaceAcc(s, old, new, k + Len(old), count - 1, acc \o new)
         ELSE ReplaceAcc(s, old, new, k + 1, count, Append(acc, s[k]))

PyReplace(s, old, new) == ReplaceAcc(s, old, new, 1, -1, <<>>)

PyReplaceFirst(s, old, new) == ReplaceAcc(s, old, new, 1, 1, <<>>)

\* str.split(','): pieces between commas, empty pieces kept
RECURSIVE SplitOnAcc(_, _, _, _, _)
SplitOnAcc(s, c, k, piece, acc) ==
    IF k > Len(s) THEN Append(acc, piece)
    ELSE IF s[k] = c
         THEN SplitOnAcc(s, c, k + 1, <<>>, Append(acc, piece))
         ELSE SplitOnAcc(s, c, k + 1, Append(piece, s[k]), acc)

PySplitOn(s, c) == SplitOnAcc(s, c, 1, <<>>, <<>>)

IsBlank(s) == PyStrip(s) = <<>>

(***************************************************************************)
(* HumanizerEngine._split_sentences                                        *)
(***************************************************************************)
\* the sentence-final marks without the exclamation mark
SentenceEndPlain == {".", "?"}

SentenceEnd == {".", "!", "?"}

\* first index >= k of s that is not whitespace (Len(s)+1 when none)
RECURSIVE SkipSpace(_, _)
SkipSpace(s, k) == IF k <= Len(s) /\ IsSpace(s[k]) THEN SkipSpace(s, k + 1) ELSE k

\* re.split(r'(?<=[.!?])\s+', text)
RECURSIVE ReSplitAcc(_, _, _, _)
ReSplitAcc(s, k, piece, acc) ==
    IF k > Len(s) THEN Append(acc, piece)
    ELSE IF k > 1 /\ s[k - 1] \in SentenceEnd /\ IsSpace(s[k])
         THEN ReSplitAcc(s, SkipSpace(s, k), <<>>, Append(acc, piece))
         ELSE ReSplitAcc(s, k + 1, Append(piece, s[k]), acc)

ReSplit(s) == ReSplitAcc(s, 1, <<>>, <<>>)

RECURSIVE StripNonEmpty(_)
StripNonEmpty(pieces) ==
    IF pieces = <<>> THEN <<>>
    ELSE IF PyStrip(pieces[1]) = <<>> THEN StripNonEmpty(Tail(pieces))
    ELSE <<PyStrip(pieces[1])>> \o StripNonEmpty(Tail(pieces))

\* the pieces as re.split returns them, empty ones kept
SplitUnfiltered(text) == ReSplit(text)

_split_sentences(text) == StripNonEmpty(ReSplit(text))

(***************************************************************************)
(* Numbers: intensity and the draws of random.random() in units of 1/10000 *)
(***************************************************************************)
Unit == 10000

\* r < intensity * c, with the coefficient c given in hundredths
Below(r, intensity, c100) == r * 100 < intensity * c100

\* r < p for a fixed probability p given in ten-thousandths
BelowConst(r, p) == r < p

\* Bounds of the model: how many entries of a pattern bank random.choice may
\* pick from, and how many texts a batch request carries.
NChoice == 2
MaxBatch == 2
MaxSentences == 4
MaxParagraphed == 7
MaxLen == 4
MaxWorkers == 3

Min(a, b) == IF a < b THEN a ELSE b

\* the indices random.choice(bank) may return, within the bound
ChoiceOf(bank) == 1..Min(NChoice, Len(bank))

(***************************************************************************)
(* HumanizerEngine._init_pattern_banks                                     *)
(***************************************************************************)
transitions ==
    << Str("Actually,"), Str("You know,"), Str("To be honest,"), Str("Interestingly,"),
       Str("Here's the thing:"), Str("The way I see it,"), Str("From my perspective,"),
       Str("Let me explain:"), Str("Basically,"), Str("In other words,"), Str("Simply put,"),
       Str("Well,"), Str("So,"), Str("Now,"), Str("Look,"), Str("See,"), Str("Anyway,"),
       Str("Besides,") >>

fillers ==
    << Str("kind of"), Str("sort of"), Str("pretty much"), Str("more or less"),
       Str("essentially"), Str("basically"), Str("actually"), Str("really"), Str("quite"),
       Str("rather"), Str("somewhat"), Str("perhaps"), Str("maybe"), Str("probably"),
       Str("I think"), Str("I believe"), Str("it seems") >>

personal_touches ==
    << Str("I'd say"), Str("I mean"), Str("if you ask me"), Str("in my experience"),
       Str("from what I've seen"), Str("personally"), Str("honestly") >>

\* (correct, variant, chance): chance in ten-thousandths
imperfections ==
    << [correct |-> Str("it's"), variant |-> Str("its"), chance |-> 200],
       [correct |-> Str("their"), variant |-> Str("there"), chance |-> 100],
       [correct |-> Str("effect"), variant |-> Str("affect"), chance |-> 100],
       [correct |-> Str("who"), variant |-> Str("that"), chance |-> 300] >>

\* the contraction table of _add_human_patterns
replacements ==
    << <<Str("it is"), Str("it's")>>, <<Str("is not"), Str("isn't")>>,
       <<Str("cannot"), Str("can't")>>, <<Str("will not"), Str("won't")>>,
       <<Str("do not"), Str("don't")>>, <<Str("I am"), Str("I'm")>>,
       <<Str("you are"), Str("you're")>>, <<Str("they are"), Str("they're")>> >>

\* the rhetorical questions of _inject_style
questions ==
    << Str("You know what?"), Str("But here's the question:"),
       Str("Want to know something interesting?"), Str("Guess what?") >>

\* the words _inject_style never emphasises
NoEmphasis == {Str("the"), Str("a"), Str("an"), Str("and"), Str("or"), Str("but")}

\* the tokens _vary_sentence_structure splits at
SplitTokens == {Str(","), Str("and"), Str("but"), Str("or"), Str("while"), Str("although")}

\* HumanizerEngine._get_simple_synonyms
SynonymKeys == <<Str("good"), Str("bad"), Str("big"), Str("small"), Str("fast"), Str("slow")>>

SynonymTable ==
    << <<Str("great"), Str("fine"), Str("nice"), Str("excellent"), Str("solid")>>,
       <<Str("poor"), Str("terrible"), Str("awful"), Str("lousy")>>,
       <<Str("large"), Str("huge"), Str("massive"), Str("enormous")>>,
       <<Str("little"), Str("tiny"), Str("minor"), Str("slight")>>,
       <<Str("quick"), Str("rapid"), Str("speedy"), Str("swift")>>,
       <<Str("gradual"), Str("leisurely"), Str("sluggish")>> >>

_get_simple_synonyms(word) ==
    IF \E k \in 1..Len(SynonymKeys) : SynonymKeys[k] = PyLower(word)
    THEN SynonymTable[CHOOSE k \in 1..Len(SynonymKeys) : SynonymKeys[k] = PyLower(word)]
    ELSE <<>>

(***************************************************************************)
(* The techniques.  Every random.random(), random.choice and               *)
(* random.randint of the code is a parameter (a draw), so a technique is   *)
(* an operator of its sentence, the intensity and its draws.               *)
(***************************************************************************)

\* What an external provider returns when it raises.
ProviderFailure == <<"ProviderFailure">>

\* _paraphrase_sentence without the try/except around the provider
ParaphraseUnguarded(sentence, intensity, r, out) ==
    IF r > intensity THEN sentence ELSE out

\* _paraphrase_sentence: r is the trigger draw, out what the T5 provider
\* returns for the sentence (a text, or ProviderFailure when tokenizer,
\* generate or decode raises).
_paraphrase_sentence(sentence, intensity, r, out) ==
    IF r > intensity THEN sentence
    ELSE IF out = ProviderFailure THEN sentence
    ELSE out

\* the split of _vary_sentence_structure: the first i in
\* range(mid - 3, mid + 3) with i < len(words) and words[i] a split token
\* (i is the Python index: words[i] is words[i + 1] here)
SplitPoints(words) ==
    LET mid == Len(words) \div 2
    IN { i \in (mid - 3)..(mid + 2) : i >= 0 /\ i < Len(words) /\ words[i + 1] \in SplitTokens }

SplitLongSentence(sentence, words) ==
    IF SplitPoints(words) = {} THEN sentence
    ELSE LET i == CHOOSE p \in SplitPoints(words) : \A q \in SplitPoints(words) : p <= q
         IN PyJoin(Str(" "), SubSeq(words, 1, i)) \o Str(". ")
              \o PyCapitalize(PyJoin(Str(" "), SubSeq(words, i + 2, Len(words))))

SwapClauses(sentence) ==
    LET parts == PySplitOn(sentence, ",")
    IN IF Len(parts) = 2
       THEN PyCapitalize(PyStrip(parts[2])) \o Str(", ") \o PyLower(PyStrip(parts[1]))
       ELSE sentence

\* _vary_sentence_structure: r1 decides the split, r2 the clause swap
_vary_sentence_structure(sentence, intensity, r1, r2) ==
    LET words == PySplit(sentence)
        s1 == IF Len(words) > 15 /\ Below(r1, intensity, 50)
              THEN SplitLongSentence(sentence, words)
              ELSE sentence
    IN IF PyContains(s1, Str(",")) /\ Below(r2, intensity, 30)
       THEN SwapClauses(s1)
       ELSE s1

\* What list assignment raises when the index is out of range.
IndexError == <<"IndexError">>

ContentPos == {"NOUN", "VERB", "ADJ", "ADV"}

\* _modulate_perplexity's loop over the tagger's tokens: doc[k] is the token
\* with token.i = k - 1, draws[k] its random.random(), picks[k] the index
\* random.choice returns for it.
RECURSIVE ModulateFrom(_, _, _, _, _, _)
ModulateFrom(words, doc, k, intensity, draws, picks) ==
    IF k > Len(doc) THEN words
    ELSE LET synonyms == _get_simple_synonyms(doc[k].text)
         IN IF /\ Below(draws[k], intensity, 10)
               /\ doc[k].pos \in ContentPos
               /\ synonyms # <<>>
            THEN IF k > Len(words) THEN IndexError
                 ELSE ModulateFrom([words EXCEPT ![k] = synonyms[picks[k]]],
                                   doc, k + 1, intensity, draws, picks)
            ELSE ModulateFrom(words, doc, k + 1, intensity, draws, picks)

_modulate_perplexity(sentence, intensity, doc, draws, picks) ==
    LET words == ModulateFrom(PySplit(sentence), doc, 1, intensity, draws, picks)
    IN IF words = IndexError THEN IndexError ELSE PyJoin(Str(" "), words)

\* _inject_style: r0 the trigger, rq and q the question, re and idx the
\* emphasis (idx = random.randint(1, len(words) - 2), a Python index)
_inject_style(sentence, intensity, r0, rq, q, re, idx) ==
    IF r0 > intensity THEN sentence
    ELSE LET s1 == IF BelowConst(rq, 1000)
                   THEN questions[q] \o Str(" ") \o sentence
                   ELSE sentence
             words == PySplit(s1)
             marked == IF Len(words) > 5 /\ BelowConst(re, 1500)
                          /\ words[idx + 1] \notin NoEmphasis
                       THEN [words EXCEPT ![idx + 1] = Str("*") \o words[idx + 1] \o Str("*")]
                       ELSE words
         IN PyJoin(Str(" "), marked)

\* list.insert(pos, x), pos a Python index
ListInsert(xs, pos, x) == SubSeq(xs, 1, pos) \o <<x>> \o SubSeq(xs, pos + 1, Len(xs))

InsertFiller(sentence, filler, pos) ==
    LET words == PySplit(sentence)
    IN IF Len(words) > 3
       THEN PyJoin(Str(" "), ListInsert(words, pos, filler))
       ELSE sentence

RECURSIVE Contract(_, _)
Contract(sentence, k) ==
    IF k > Len(replacements) THEN sentence
    ELSE Contract(PyReplace(sentence, replacements[k][1], replacements[k][2]), k + 1)

RECURSIVE Imperfect(_, _, _)
Imperfect(sentence, k, chances) ==
    IF k > Len(imperfections) THEN sentence
    ELSE IF PyContains(sentence, imperfections[k].correct)
            /\ BelowConst(chances[k], imperfections[k].chance)
         THEN Imperfect(PyReplaceFirst(sentence, imperfections[k].correct,
                                       imperfections[k].variant), k + 1, chances)
         ELSE Imperfect(sentence, k + 1, chances)

\* _add_human_patterns.  d is the record of its draws: fill, contr, imp,
\* touch the four trigger draws; filler and pos the filler and its
\* random.randint(1, len(words) - 1); chances the per-pattern draws of the
\* imperfections; phrase the personal touch.
_add_human_patterns(sentence, intensity, d) ==
    LET s1 == IF Below(d.fill, intensity, 20)
              THEN InsertFiller(sentence, fillers[d.filler], d.pos)
              ELSE sentence
        s2 == IF Below(d.contr, intensity, 40) THEN Contract(s1, 1) ELSE s1
        s3 == IF Below(d.imp, intensity, 5) THEN Imperfect(s2, 1, d.chances) ELSE s2
    IN IF Below(d.touch, intensity, 15)
       THEN personal_touches[d.phrase] \o Str(", ") \o PyLower(s3)
       ELSE s3

\* the transition _fast_humanize adds before every sentence but the first
\* (i is the Python index of the sentence)
AddTransition(sentence, i, intensity, r, t) ==
    IF i > 0 /\ Below(r, intensity, 30)
    THEN transitions[t] \o Str(" ") \o PyLower(sentence)
    ELSE sentence

(***************************************************************************)
(* HumanizerEngine._create_paragraph_variation                             *)
(***************************************************************************)
\* the ranges with the short one from intensity 0.5 on
ParaLengthRangeFrom(intensity) == IF intensity >= 5000 THEN 2..5 ELSE 3..6

\* the values random.randint may return for para_length
ParaLengthRange(intensity) == IF intensity > 5000 THEN 2..5 ELSE 3..6

\* the loop: i is the position (from 1) of the sentence, lens[i] the
\* para_length drawn in its iteration
RECURSIVE ComposeFrom(_, _, _, _, _)
ComposeFrom(sentences, i, paragraph, result, lens) ==
    IF i > Len(sentences)
    THEN (IF paragraph # <<>> THEN Append(result, PyJoin(Str(" "), paragraph)) ELSE result)
    ELSE LET grown == Append(paragraph, sentences[i])
         IN IF Len(grown) >= lens[i] \/ i = Len(sentences)
            THEN ComposeFrom(sentences, i + 1, <<>>,
                             Append(result, PyJoin(Str(" "), grown)), lens)
            ELSE ComposeFrom(sentences, i + 1, grown, result, lens)

Paragraphs(sentences, lens) == ComposeFrom(sentences, 1, <<>>, <<>>, lens)

\* the composer with one line break between paragraphs
ComposeSingleBreak(sentences, lens) ==
    IF Len(Paragraphs(sentences, lens)) > 1
    THEN PyJoin(Str("\n"), Paragraphs(sentences, lens))
    ELSE PyJoin(Str(" "), sentences)

\* the composer without the sentences joined when one paragraph was built
ComposeParagraphsOnly(sentences, lens) ==
    IF Len(Paragraphs(sentences, lens)) > 1
    THEN PyJoin(Str("\n\n"), Paragraphs(sentences, lens))
    ELSE <<>>

_create_paragraph_variation(sentences, lens) ==
    IF Len(Paragraphs(sentences, lens)) > 1
    THEN PyJoin(Str("\n\n"), Paragraphs(sentences, lens))
    ELSE PyJoin(Str(" "), sentences)

(***************************************************************************)
(* DetectionEvasion                                                        *)
(***************************************************************************)
Quote == <<"\"">>

\* vary_punctuation: r1 picks the dash, r2 decides the quote pass (whose two
\* replacements put a '"' where a '"' was)
vary_punctuation(text, r1, r2) ==
    LET dashed == PyReplace(text, Str(" - "),
                            IF BelowConst(r1, 5000)
                            THEN <<" ", EmDash, " ">> ELSE <<" ", EnDash, " ">>)
    IN IF PyContains(dashed, Quote) /\ BelowConst(r2, 3000)
       THEN PyReplaceFirst(PyReplaceFirst(dashed, Quote, Quote), Quote, Quote)
       ELSE dashed

\* add_unicode_variations with its default rate = 0.001
add_unicode_variations(text, r) ==
    IF BelowConst(r, 10) THEN PyReplaceFirst(text, Str(" "), <<" ", ZWSP>>) ELSE text

(***************************************************************************)
(* HumanizerService: the three engines                                     *)
(***************************************************************************)
Modes == <<"fast", "balanced", "quality">>

\* the techniques each engine is constructed with, in the order of the
\* lists of HumanizerService.initialize
ConstructedTechniques(mode) ==
    CASE mode = "fast" -> <<"sentence_variation", "human_patterns">>
      [] mode = "balanced" ->
            <<"sentence_variation", "human_patterns", "semantic_paraphrasing">>
      [] mode = "quality" ->
            <<"sentence_variation", "perplexity_modulation", "stylistic_injection",
              "semantic_paraphrasing", "human_patterns">>

NoEngine == [exists |-> FALSE, techniques |-> <<>>, models_loaded |-> FALSE]

\* HumanizerEngine.__init__
NewEngine(mode) ==
    [exists |-> TRUE, techniques |-> ConstructedTechniques(mode), models_loaded |-> FALSE]

ModeSet == {Modes[k] : k \in 1..Len(Modes)}

\* x in list
InList(x, list) == \E k \in 1..Len(list) : list[k] = x

(***************************************************************************)
(* The order in which _full_humanize and _fast_humanize test and apply the *)
(* techniques                                                              *)
(***************************************************************************)
\* the techniques in the order of the quality tier's list
ListOrder ==
    <<"sentence_variation", "perplexity_modulation", "stylistic_injection",
      "semantic_paraphrasing", "human_patterns">>

FullOrder ==
    <<"semantic_paraphrasing", "sentence_variation", "perplexity_modulation",
      "stylistic_injection", "human_patterns">>

FastOrder == <<"sentence_variation", "human_patterns">>

PathOrder(fast_mode) == IF fast_mode THEN FastOrder ELSE FullOrder

\* the step that closes a sentence: the transition of _fast_humanize, the
\* semantic check of _full_humanize
LastStage(fast_mode) == IF fast_mode THEN "transition" ELSE "gate"

\* the next technique after position k of the path's order that is in
\* self.techniques, or the closing step
StageAfter(fast_mode, techs, k) ==
    LET order == PathOrder(fast_mode)
        later == { j \in (k + 1)..Len(order) : InList(order[j], techs) }
    IN IF later = {} THEN LastStage(fast_mode)
       ELSE order[CHOOSE j \in later : \A l \in later : j <= l]

PositionIn(order, name) == CHOOSE k \in 1..Len(order) : order[k] = name

(***************************************************************************)
(* CacheService                                                            *)
(***************************************************************************)
Digits == Str("0123456789")

RECURSIVE NatStr(_)
NatStr(n) == IF n < 10 THEN <<Digits[n + 1]>> ELSE NatStr(n \div 10) \o <<Digits[(n % 10) + 1]>>

\* the digits of a fraction given in ten-thousandths, trailing zeros dropped
RECURSIVE FracStr(_, _)
FracStr(frac, width) ==
    IF width = 1 \/ frac % 10 # 0
    THEN (IF width > Len(NatStr(frac))
          THEN [k \in 1..(width - Len(NatStr(frac))) |-> "0"] ELSE <<>>) \o NatStr(frac)
    ELSE FracStr(frac \div 10, width - 1)

\* str(float): 0.8 -> "0.8", 1.0 -> "1.0"
FloatStr(x) == NatStr(x \div Unit) \o Str(".") \o FracStr(x % Unit, 4)

\* generate_key: the MD5 digest of f"{text}:{mode}:{intensity}"; the digest
\* is taken to be collision-free, so the key is the digested content
generate_key(text, mode, intensity) ==
    text \o Str(":") \o Str(mode) \o Str(":") \o FloatStr(intensity)

\* CacheService.get / CacheService.set on the Redis map
\* get returns None when the cache is off or the key is absent
CacheHit(enabled, store, key) == enabled /\ key \in DOMAIN store

CacheSet(store, key, value) ==
    [k \in (DOMAIN store) \cup {key} |-> IF k = key THEN value ELSE store[k]]

(***************************************************************************)
(* State                                                                   *)
(***************************************************************************)
VARIABLES
    initialized,     \* HumanizerService._initialized
    engines,         \* mode -> the engine of that tier (or NoEngine)
    cache_enabled,   \* CacheService.enabled
    cache,           \* the Redis map: key -> stored response
    pc,              \* where the request in flight is
    req,             \* the request in flight
    call,            \* the frame of the HumanizerEngine.humanize call in progress
    items,           \* batch: the outcome of each task so far
    resp,            \* the response to the request in flight, once it is made
    trace,           \* the techniques applied to the current sentence so far
    step,            \* what the last of them was given and what it returned
    gate,            \* what the semantic check of the last closed sentence drew
    embed_calls,     \* calls of semantic_encoder.encode by the current engine call
    fault,           \* what was raised inside the request in flight
    workers          \* the threads running humanize on the engine of FastHumanizer

vars == <<initialized, engines, cache_enabled, cache, pc, req, call, items, resp,
          trace, step, gate, embed_calls, fault, workers>>

NoOverride == <<>>

\* no thread is running humanize, and the body of _load_models (after its
\* test of models_loaded) has not been executed
IdleWorkers == [at |-> [t \in 1..MaxWorkers |-> "idle"], runs |-> 0]

NoRequest ==
    [kind |-> "none", mode |-> "", intensity |-> 0, preserve_meaning |-> FALSE,
     techniques |-> NoOverride, cache |-> FALSE, texts |-> <<>>]

NoCall ==
    [engine |-> "", text |-> <<>>, intensity |-> 0, preserve_meaning |-> FALSE,
     fast_mode |-> FALSE, sentences |-> <<>>, i |-> 0, sentence |-> <<>>,
     result |-> <<>>, stage |-> "none"]

NoDraws ==
    [fill |-> Unit - 1, filler |-> 1, pos |-> 1, contr |-> Unit - 1, imp |-> Unit - 1,
     chances |-> <<Unit - 1, Unit - 1, Unit - 1, Unit - 1>>, touch |-> Unit - 1, phrase |-> 1]

NoGate == [i |-> -1, ran |-> FALSE, similarity |-> 100, draws |-> NoDraws]

NoStep == [input |-> <<>>, output |-> <<>>]

NoResponse ==
    [status |-> 0, original_text |-> <<>>, humanized_text |-> <<>>, mode |-> "",
     techniques_applied |-> <<>>, similarity_score |-> "None", cached |-> FALSE,
     results |-> <<>>]

\* HTTPException(status_code=...)
ErrorResponse(status) == [NoResponse EXCEPT !.status = status]

\* CacheService.enabled is what _connect found: W.redis
Init(W) ==
    /\ initialized = FALSE
    /\ engines = [m \in ModeSet |-> NoEngine]
    /\ cache_enabled \in W.redis
    /\ cache = <<>>
    /\ pc = "idle"
    /\ req = NoRequest
    /\ call = NoCall
    /\ items = <<>>
    /\ resp = NoResponse
    /\ trace = <<>>
    /\ step = NoStep
    /\ gate = NoGate
    /\ embed_calls = 0
    /\ fault = "none"
    /\ workers = IdleWorkers

(***************************************************************************)
(* HumanizerService.initialize                                             *)
(***************************************************************************)
\* built = how many of the three engines are constructed before a
\* constructor raises (3: none raises)
Initialize(W) ==
    /\ pc \in {"idle", "done"}
    /\ IF initialized
       THEN UNCHANGED <<initialized, engines>>
       ELSE \E built \in W.builds :
              /\ engines' = [m \in ModeSet |->
                               IF PositionIn(Modes, m) <= built THEN NewEngine(m)
                               ELSE engines[m]]
              /\ initialized' = (built = Len(Modes))
    /\ UNCHANGED <<cache_enabled, workers, cache, pc, req, call, items, resp, trace, step, gate,
                   embed_calls, fault>>

(***************************************************************************)
(* HumanizerService.get_humanizer                                          *)
(***************************************************************************)
\* get_humanizer without the test of _initialized
GetUnstarted(mode) == IF mode \in ModeSet THEN mode ELSE "ValueError"

\* "RuntimeError", "ValueError" or the mode whose engine is returned
get_humanizer(mode) ==
    IF ~initialized THEN "RuntimeError"
    ELSE IF mode \in ModeSet THEN mode
    ELSE "ValueError"

\* the status of the HTTPException each handler maps an exception to
StatusOf(exception) == IF exception = "ValueError" THEN 400 ELSE 500

\* humanize_text: fast_mode = (request.mode == "fast")
FastModeOf(mode) == mode = "fast"

\* humanize_batch: process_text passes fast_mode=True, preserve_meaning=True
BatchFastMode(mode) == TRUE

BatchPreserveMeaning == TRUE

(***************************************************************************)
(* HumanizerEngine.humanize, up to the loop over the sentences             *)
(***************************************************************************)
EnterHumanize(mode, techs, text, intensity, preserve_meaning, fast_mode) ==
    LET sentences == _split_sentences(text)
    IN [engine |-> mode, text |-> text, intensity |-> intensity,
        preserve_meaning |-> preserve_meaning, fast_mode |-> fast_mode,
        sentences |-> sentences, i |-> 0,
        sentence |-> IF sentences = <<>> THEN <<>> ELSE sentences[1],
        result |-> <<>>,
        stage |-> IF sentences = <<>> THEN "compose" ELSE StageAfter(fast_mode, techs, 0)]

\* does the call encode the original sentences (the first lines of
\* _full_humanize)?
EncodesOriginals(preserve_meaning, fast_mode) == ~fast_mode /\ preserve_meaning

\* what humanize raises before the loop: "load" when _load_models raises,
\* "encode" when semantic_encoder.encode(sentences) raises, else "none"
RaisedOnEntry(engine, preserve_meaning, fast_mode, load_ok, enc_ok) ==
    IF ~engine.models_loaded /\ ~load_ok THEN "load"
    ELSE IF EncodesOriginals(preserve_meaning, fast_mode) /\ ~enc_ok THEN "encode"
    ELSE "none"

(***************************************************************************)
(* What the caller does when HumanizerEngine.humanize returns or raises    *)
(***************************************************************************)
\* the draws of the two global passes, whether the similarity score could
\* be computed and whether the cache write succeeded
NoPasses == [dash |-> Unit - 1, quote |-> Unit - 1, unicode |-> Unit - 1,
             scored |-> FALSE, stored |-> FALSE]

\* the insertion pass from intensity 0.8 on
UnicodePassFrom(intensity) == intensity >= 8000

\* humanize_text: `if request.intensity > 0.8`
UnicodePassApplies(intensity) == intensity > 8000

\* humanize_text after humanizer.humanize: the evasion passes
GlobalPasses(humanized, intensity, p) ==
    LET varied == vary_punctuation(humanized, p.dash, p.quote)
    IN IF UnicodePassApplies(intensity) THEN add_unicode_variations(varied, p.unicode)
       ELSE varied

\* humanize_text: the response dictionary
SingleResponse(r, techs, humanized, p) ==
    [status |-> 200,
     original_text |-> r.texts[1],
     humanized_text |-> GlobalPasses(humanized, r.intensity, p),
     mode |-> r.mode,
     techniques_applied |-> techs,
     similarity_score |-> IF r.preserve_meaning /\ ~FastModeOf(r.mode) /\ p.scored
                          THEN "score" ELSE "None",
     cached |-> FALSE,
     results |-> <<>>]

\* the caller storing whatever response it makes
ReturnedStoringAll(r, techs, text, out, p) ==
    IF r.kind = "single"
    THEN /\ pc' = "done"
         /\ items' = <<>>
         /\ resp' = IF out.raised # "none" THEN ErrorResponse(StatusOf(out.raised))
                    ELSE SingleResponse(r, techs, out.humanized, p)
         /\ cache' = IF r.cache /\ cache_enabled
                     THEN CacheSet(cache, generate_key(r.texts[1], r.mode, r.intensity),
                                   IF out.raised # "none"
                                   THEN ErrorResponse(StatusOf(out.raised))
                                   ELSE SingleResponse(r, techs, out.humanized, p))
                     ELSE cache
    ELSE /\ pc' = "gather"
         /\ items' = Append(items, [input |-> text, raised |-> out.raised,
                                    humanized |-> out.humanized])
         /\ resp' = resp
         /\ cache' = cache

\* out = [raised |-> what humanize raised or "none", humanized |-> its result];
\* p.stored is FALSE when setex raises inside CacheService.set
Returned(r, techs, text, out, p) ==
    IF r.kind = "single"
    THEN /\ pc' = "done"
         /\ items' = <<>>
         /\ resp' = IF out.raised # "none" THEN ErrorResponse(StatusOf(out.raised))
                    ELSE SingleResponse(r, techs, out.humanized, p)
         /\ cache' = IF out.raised = "none" /\ r.cache /\ cache_enabled /\ p.stored
                     THEN CacheSet(cache, generate_key(r.texts[1], r.mode, r.intensity),
                                   SingleResponse(r, techs, out.humanized, p))
                     ELSE cache
    ELSE /\ pc' = "gather"
         /\ items' = Append(items, [input |-> text, raised |-> out.raised,
                                    humanized |-> out.humanized])
         /\ resp' = resp
         /\ cache' = cache

Raised(kind) == [raised |-> kind, humanized |-> <<>>]

(***************************************************************************)
(* POST /humanize: humanize_text, up to the loop over the sentences        *)
(***************************************************************************)
\* W is the workload: the sets the inputs and the draws are taken from
HumanizeText(W) ==
    /\ pc \in {"idle", "done"}
    /\ \E text \in W.texts, mode \in W.modes, intensity \in W.intensities,
          preserve_meaning \in BOOLEAN, techniques \in W.overrides,
          use_cache \in W.cache_flags :
         LET r == [kind |-> "single", mode |-> mode, intensity |-> intensity,
                   preserve_meaning |-> preserve_meaning, techniques |-> techniques,
                   cache |-> use_cache, texts |-> <<text>>]
             key == generate_key(text, mode, intensity)
             found == get_humanizer(mode)
         IN /\ req' = r
            /\ trace' = <<>>
            /\ step' = NoStep
            /\ gate' = NoGate
            /\ IF use_cache /\ CacheHit(cache_enabled, cache, key)
               THEN /\ resp' = [cache[key] EXCEPT !.cached = TRUE]
                    /\ pc' = "done"
                    /\ call' = NoCall
                    /\ fault' = "none"
                    /\ embed_calls' = 0
                    /\ items' = <<>>
                    /\ UNCHANGED <<engines, cache>>
               ELSE IF found \notin ModeSet
               THEN /\ resp' = ErrorResponse(StatusOf(found))
                    /\ pc' = "done"
                    /\ call' = NoCall
                    /\ fault' = found
                    /\ embed_calls' = 0
                    /\ items' = <<>>
                    /\ UNCHANGED <<engines, cache>>
               ELSE \E load_ok \in (IF engines[mode].models_loaded THEN {TRUE} ELSE W.loads),
                       enc_ok \in (IF EncodesOriginals(preserve_meaning, FastModeOf(mode))
                                   THEN W.encodes ELSE {TRUE}) :
                      LET techs == IF techniques # NoOverride THEN techniques
                                   ELSE engines[mode].techniques
                          raised == RaisedOnEntry(engines[mode], preserve_meaning,
                                                  FastModeOf(mode), load_ok, enc_ok)
                      IN /\ engines' = [engines EXCEPT
                                          ![mode].techniques = techs,
                                          ![mode].models_loaded = (raised # "load")]
                         /\ fault' = raised
                         /\ embed_calls' = IF raised # "load"
                                              /\ EncodesOriginals(preserve_meaning, FastModeOf(mode))
                                           THEN 1 ELSE 0
                         /\ IF raised # "none"
                            THEN /\ call' = NoCall
                                 /\ Returned(r, techs, text, Raised(raised), NoPasses)
                            ELSE /\ call' = EnterHumanize(mode, techs, text, intensity,
                                                          preserve_meaning, FastModeOf(mode))
                                 /\ pc' = "call"
                                 /\ items' = <<>>
                                 /\ resp' = NoResponse
                                 /\ UNCHANGED cache
    /\ UNCHANGED <<initialized, cache_enabled, workers>>

(***************************************************************************)
(* POST /humanize/batch: humanize_batch                                    *)
(***************************************************************************)
\* the lists of at most n texts
RECURSIVE ListsUpTo(_, _)
ListsUpTo(S, n) ==
    IF n = 0 THEN {<<>>}
    ELSE ListsUpTo(S, n - 1) \cup
         { Append(l, x) : l \in { m \in ListsUpTo(S, n - 1) : Len(m) = n - 1 }, x \in S }

HumanizeBatch(W) ==
    /\ pc \in {"idle", "done"}
    /\ \E texts \in ListsUpTo(W.batch_texts, MaxBatch), mode \in W.modes,
          intensity \in W.intensities :
         LET r == [kind |-> "batch", mode |-> mode, intensity |-> intensity,
                   preserve_meaning |-> BatchPreserveMeaning, techniques |-> NoOverride,
                   cache |-> FALSE, texts |-> texts]
             found == get_humanizer(mode)
         IN /\ req' = r
            /\ IF found \notin ModeSet
               THEN /\ resp' = ErrorResponse(500)
                    /\ pc' = "done"
                    /\ fault' = found
               ELSE /\ resp' = NoResponse
                    /\ pc' = "gather"
                    /\ fault' = "none"
    /\ items' = <<>>
    /\ call' = NoCall
    /\ trace' = <<>>
    /\ step' = NoStep
    /\ gate' = NoGate
    /\ embed_calls' = 0
    /\ UNCHANGED <<initialized, engines, cache_enabled, workers, cache>>

\* the pairs with the originals taken from the end of the list
ZipReversed(texts, humanized_texts) ==
    [k \in 1..Min(Len(texts), Len(humanized_texts)) |->
        [original |-> texts[Len(texts) + 1 - k], humanized |-> humanized_texts[k]]]

\* zip(request.texts, humanized_texts)
ZipResults(texts, humanized_texts) ==
    [k \in 1..Min(Len(texts), Len(humanized_texts)) |->
        [original |-> texts[k], humanized |-> humanized_texts[k]]]

\* asyncio.gather(*tasks): the tasks run one after the other, each to its
\* end; gather raises the first exception a task raised, else returns the
\* results in the order of the tasks
Gather(W) ==
    /\ pc = "gather"
    /\ IF Len(items) < Len(req.texts)
       THEN LET text == req.texts[Len(items) + 1]
                mode == req.mode
            IN \E load_ok \in (IF engines[mode].models_loaded THEN {TRUE} ELSE W.loads) :
                 LET raised == RaisedOnEntry(engines[mode], req.preserve_meaning,
                                             BatchFastMode(mode), load_ok, TRUE)
                 IN /\ engines' = [engines EXCEPT ![mode].models_loaded = (raised # "load")]
                    /\ embed_calls' = 0
                    /\ trace' = <<>>
                    /\ step' = NoStep
                    /\ gate' = NoGate
                    /\ IF raised # "none"
                       THEN /\ call' = NoCall
                            /\ fault' = raised
                            /\ Returned(req, engines[mode].techniques, text,
                                        Raised(raised), NoPasses)
                       ELSE /\ call' = EnterHumanize(mode, engines[mode].techniques, text,
                                                     req.intensity, req.preserve_meaning,
                                                     BatchFastMode(mode))
                            /\ pc' = "call"
                            /\ UNCHANGED <<items, resp, cache, fault>>
       ELSE /\ resp' = IF \E k \in 1..Len(items) : items[k].raised # "none"
                       THEN ErrorResponse(500)
                       ELSE [NoResponse EXCEPT
                               !.status = 200, !.mode = req.mode,
                               !.results = ZipResults(req.texts,
                                              [k \in 1..Len(items) |-> items[k].humanized])]
            /\ pc' = "done"
            /\ UNCHANGED <<engines, call, items, cache, trace, step, gate, embed_calls,
                           fault>>
    /\ UNCHANGED <<initialized, cache_enabled, workers, req>>

(***************************************************************************)
(* The external providers: what they may return                            *)
(***************************************************************************)
\* The T5 paraphraser: it raises, or returns some text (possibly empty).
ParaphraseOutcomes == {ProviderFailure, Str("It is fine."), <<>>}

\* The spaCy tagger.  It may keep one token per whitespace-separated word or
\* split trailing punctuation into tokens of its own.
Punctuation == {",", ".", "!", "?", ";", ":"}

RECURSIVE TokenizeWord(_)
TokenizeWord(w) ==
    IF Len(w) > 1 /\ w[Len(w)] \in Punctuation
    THEN TokenizeWord(SubSeq(w, 1, Len(w) - 1)) \o <<<<w[Len(w)]>>>>
    ELSE <<w>>

RECURSIVE PunctTokens(_)
PunctTokens(words) ==
    IF words = <<>> THEN <<>> ELSE TokenizeWord(words[1]) \o PunctTokens(Tail(words))

Tokenizations(sentence) == {PySplit(sentence), PunctTokens(PySplit(sentence))}

\* A token with an entry in the synonym table may or may not be tagged as a
\* content word; the tag of any other token decides nothing.
Taggable(tokens) == { k \in 1..Len(tokens) : _get_simple_synonyms(tokens[k]) # <<>> }

TagsOf(tokens) ==
    { [k \in 1..Len(tokens) |-> IF k \in Taggable(tokens) THEN t[k] ELSE "X"] :
        t \in [Taggable(tokens) -> {"ADJ", "PRON"}] }

TaggerDocs(sentence) ==
    UNION { { [k \in 1..Len(tokens) |-> [text |-> tokens[k], pos |-> tags[k]]] :
                tags \in TagsOf(tokens) } : tokens \in Tokenizations(sentence) }

\* the sentence embeddings: the cosine similarity they give, in hundredths
GateThreshold == 70

Similarities == {GateThreshold - 1, GateThreshold}

(***************************************************************************)
(* The draws a technique reads.  A draw that decides nothing (its branch   *)
(* is not taken) is fixed, so that equal outcomes are not enumerated twice.*)
(***************************************************************************)
\* a draw that cannot change the result, whatever the intensity
NoDraw == Unit - 1

\* the tokens whose draw and pick matter to _modulate_perplexity
Replaceable(doc) ==
    { k \in 1..Len(doc) :
        doc[k].pos \in ContentPos /\ _get_simple_synonyms(doc[k].text) # <<>> }

PerplexityDraws(doc, D) ==
    { [k \in 1..Len(doc) |-> IF k \in Replaceable(doc) THEN f[k] ELSE NoDraw] :
        f \in [Replaceable(doc) -> D] }

PerplexityPicks(doc) ==
    { [k \in 1..Len(doc) |-> IF k \in Replaceable(doc) THEN g[k] ELSE 1] :
        g \in { h \in [Replaceable(doc) -> 1..NChoice] :
                  \A k \in Replaceable(doc) : h[k] <= Len(_get_simple_synonyms(doc[k].text)) } }

\* the positions up to the end of the list
FillPositionsToEnd(n) == 1..n

\* random.randint(1, len(words) - 1), both ends included
FillPositions(n) == 1..(n - 1)

FillDraws(sentence, intensity, D) ==
    LET n == Len(PySplit(sentence))
    IN IF n > 3
       THEN { f \in [fill : D, filler : ChoiceOf(fillers), pos : FillPositions(n)] :
                Below(f.fill, intensity, 20) \/ (f.filler = 1 /\ f.pos = 1) }
       ELSE {[fill |-> NoDraw, filler |-> 1, pos |-> 1]}

\* is there a formal phrase to contract?
Contractible(sentence) ==
    \E k \in 1..Len(replacements) : PyContains(sentence, replacements[k][1])

ContractDraws(sentence, D) == IF Contractible(sentence) THEN D ELSE {NoDraw}

\* the imperfections whose correct form occurs in the sentence
Imperfectible(sentence) ==
    { k \in 1..Len(imperfections) : PyContains(sentence, imperfections[k].correct) }

ImperfectDraws(sentence, D) == IF Imperfectible(sentence) # {} THEN D ELSE {NoDraw}

ChanceDraws(sentence, intensity, imp, D) ==
    IF Below(imp, intensity, 5)
    THEN { [k \in 1..Len(imperfections) |->
              IF k \in Imperfectible(sentence) THEN c[k] ELSE NoDraw] :
            c \in [Imperfectible(sentence) -> D] }
    ELSE {[k \in 1..Len(imperfections) |-> NoDraw]}

TouchDraws(intensity, D) ==
    { t \in [touch : D, phrase : ChoiceOf(personal_touches)] :
        Below(t.touch, intensity, 15) \/ t.phrase = 1 }

Filled(sentence, intensity, f) ==
    IF Below(f.fill, intensity, 20)
    THEN InsertFiller(sentence, fillers[f.filler], f.pos)
    ELSE sentence

Contracted(sentence, intensity, contr) ==
    IF Below(contr, intensity, 40) THEN Contract(sentence, 1) ELSE sentence

\* the draws of _add_human_patterns on a sentence
PatternDraws(sentence, intensity, D) ==
    UNION { UNION { UNION {
        { [fill |-> f.fill, filler |-> f.filler, pos |-> f.pos, contr |-> contr,
           imp |-> imp, chances |-> c, touch |-> t.touch, phrase |-> t.phrase] :
             c \in ChanceDraws(Contracted(Filled(sentence, intensity, f), intensity, contr),
                               intensity, imp, D),
             t \in TouchDraws(intensity, D) } :
        imp \in ImperfectDraws(Contracted(Filled(sentence, intensity, f), intensity, contr), D) } :
        contr \in ContractDraws(Filled(sentence, intensity, f), D) } :
        f \in FillDraws(sentence, intensity, D) }

\* the draws of _inject_style on a sentence
Asked(sentence, rq, q) ==
    IF BelowConst(rq, 1000) THEN questions[q] \o Str(" ") \o sentence ELSE sentence

EmphasisDraws(sentence, D) ==
    LET n == Len(PySplit(sentence))
    IN IF n > 5
       THEN { e \in [re : D, idx : 1..(n - 2)] : BelowConst(e.re, 1500) \/ e.idx = 1 }
       ELSE {[re |-> NoDraw, idx |-> 1]}

QuestionDraws(D) ==
    { a \in [rq : D, q : ChoiceOf(questions)] : BelowConst(a.rq, 1000) \/ a.q = 1 }

StyleDraws(sentence, intensity, D) ==
    UNION { IF r0 > intensity
            THEN {[r0 |-> r0, rq |-> NoDraw, q |-> 1, re |-> NoDraw, idx |-> 1]}
            ELSE UNION { { [r0 |-> r0, rq |-> a.rq, q |-> a.q, re |-> e.re, idx |-> e.idx] :
                             e \in EmphasisDraws(Asked(sentence, a.rq, a.q), D) } :
                         a \in QuestionDraws(D) } :
            r0 \in D }

\* the draws of _vary_sentence_structure on a sentence
VaryDraws(sentence, D) ==
    { v \in [r1 : D, r2 : D] :
        /\ Len(PySplit(sentence)) > 15 \/ v.r1 = NoDraw
        /\ PyContains(sentence, Str(",")) \/ v.r2 = NoDraw }

(***************************************************************************)
(* The loop over the sentences: one step per technique applied             *)
(***************************************************************************)
\* the value of the loop's variable `sentence`, which every technique is
\* given and whose result is assigned back to it
Current(c) == c.sentence

\* sentences[i]
Original(c) == c.sentences[c.i + 1]

Techniques(c) == engines[c.engine].techniques

\* `sentence = self._technique(sentence, intensity)`
Advance(name, out) ==
    /\ call' = [call EXCEPT
                  !.sentence = out,
                  !.stage = StageAfter(call.fast_mode, Techniques(call),
                                       PositionIn(PathOrder(call.fast_mode), name))]
    /\ trace' = Append(trace, name)
    /\ step' = [input |-> Current(call), output |-> out]
    /\ UNCHANGED <<initialized, engines, cache_enabled, workers, cache, pc, req, items, resp,
                   gate, embed_calls, fault>>

\* an exception leaves humanize
Abort(kind) ==
    /\ fault' = kind
    /\ call' = NoCall
    /\ Returned(req, Techniques(call), call.text, Raised(kind), NoPasses)
    /\ UNCHANGED <<initialized, engines, cache_enabled, workers, req, trace, step, gate,
                   embed_calls>>

\* result.append(sentence), then the next sentence or the end of the loop
Close(final) ==
    /\ call' = IF call.i + 1 < Len(call.sentences)
               THEN [call EXCEPT
                       !.result = Append(call.result, final),
                       !.i = call.i + 1,
                       !.sentence = call.sentences[call.i + 2],
                       !.stage = StageAfter(call.fast_mode, Techniques(call), 0)]
               ELSE [call EXCEPT
                       !.result = Append(call.result, final),
                       !.sentence = final,
                       !.stage = "compose"]
    /\ trace' = <<>>
    /\ step' = NoStep
    /\ UNCHANGED <<initialized, engines, cache_enabled, workers, cache, pc, req, items, resp, fault>>

Paraphrase(W) ==
    /\ pc = "call"
    /\ call.stage = "semantic_paraphrasing"
    /\ \E r \in W.draws, out \in ParaphraseOutcomes :
         Advance("semantic_paraphrasing",
                 _paraphrase_sentence(Current(call), call.intensity, r, out))

VarySentence(W) ==
    /\ pc = "call"
    /\ call.stage = "sentence_variation"
    /\ \E v \in VaryDraws(Current(call), W.draws) :
         Advance("sentence_variation",
                 _vary_sentence_structure(Current(call), call.intensity, v.r1, v.r2))

ModulatePerplexity(W) ==
    /\ pc = "call"
    /\ call.stage = "perplexity_modulation"
    /\ \E tagged \in W.tags :
         IF ~tagged
         THEN Abort("tagger")
         ELSE \E doc \in TaggerDocs(Current(call)) :
                \E draws \in PerplexityDraws(doc, W.draws), picks \in PerplexityPicks(doc) :
                  LET out == _modulate_perplexity(Current(call), call.intensity,
                                                  doc, draws, picks)
                  IN IF out = IndexError
                     THEN Abort("IndexError")
                     ELSE Advance("perplexity_modulation", out)

InjectStyle(W) ==
    /\ pc = "call"
    /\ call.stage = "stylistic_injection"
    /\ \E d \in StyleDraws(Current(call), call.intensity, W.draws) :
         Advance("stylistic_injection",
                 _inject_style(Current(call), call.intensity, d.r0, d.rq, d.q, d.re, d.idx))

AddHumanPatterns(W) ==
    /\ pc = "call"
    /\ call.stage = "human_patterns"
    /\ \E d \in PatternDraws(Current(call), call.intensity, W.draws) :
         Advance("human_patterns", _add_human_patterns(Current(call), call.intensity, d))

\* _fast_humanize: the transition, then result.append
Transition(W) ==
    /\ pc = "call"
    /\ call.stage = "transition"
    /\ \E r \in (IF call.i > 0 THEN W.draws ELSE {NoDraw}) :
         \E t \in (IF call.i > 0 /\ Below(r, call.intensity, 30)
                   THEN ChoiceOf(transitions) ELSE {1}) :
           Close(AddTransition(Current(call), call.i, call.intensity, r, t))
    /\ gate' = [NoGate EXCEPT !.i = call.i]
    /\ UNCHANGED embed_calls

\* the fallback at the intensity of the request
FullIntensity(intensity) == intensity

\* intensity * 0.5
HalfIntensity(intensity) == intensity \div 2

\* _full_humanize: revert if the meaning changed too much
GateSentence(original, mutated, similarity, intensity, d) ==
    IF similarity < GateThreshold
    THEN _add_human_patterns(original, HalfIntensity(intensity), d)
    ELSE mutated

\* the check made whatever the request asked
GateAlways(c) == TRUE

\* does _full_humanize check this sentence?
GateActive(c) == c.preserve_meaning

\* _full_humanize: the semantic check, then result.append
CheckSemantics(W) ==
    /\ pc = "call"
    /\ call.stage = "gate"
    /\ IF ~GateActive(call)
       THEN /\ Close(Current(call))
            /\ gate' = [NoGate EXCEPT !.i = call.i]
            /\ UNCHANGED embed_calls
       ELSE \E enc_ok \in W.encodes :
              IF ~enc_ok
              THEN /\ Abort("encode")
              ELSE \E similarity \in Similarities :
                     \E d \in (IF similarity < GateThreshold
                               THEN PatternDraws(Original(call),
                                                 HalfIntensity(call.intensity), W.draws)
                               ELSE {NoDraws}) :
                       LET final == GateSentence(Original(call), Current(call), similarity,
                                                 call.intensity, d)
                       IN /\ Close(final)
                          /\ gate' = [i |-> call.i, ran |-> TRUE,
                                      similarity |-> similarity, draws |-> d]
                          /\ embed_calls' = embed_calls + 1

\* the draws of the caller's passes that decide something for this text
PassDraws(r, humanized, D) ==
    IF r.kind = "single"
    THEN [dash : IF PyContains(humanized, Str(" - ")) THEN D ELSE {NoDraw},
          quote : IF PyContains(humanized, Quote) THEN D ELSE {NoDraw},
          unicode : IF UnicodePassApplies(r.intensity) /\ PyContains(humanized, Str(" "))
                    THEN D ELSE {NoDraw},
          scored : IF r.preserve_meaning /\ ~FastModeOf(r.mode) THEN BOOLEAN ELSE {FALSE},
          stored : IF r.cache /\ cache_enabled THEN BOOLEAN ELSE {FALSE}]
    ELSE {NoPasses}

\* _create_paragraph_variation, the return of humanize and what the caller
\* does with the result
Compose(W) ==
    /\ pc = "call"
    /\ call.stage = "compose"
    /\ \E humanized \in { _create_paragraph_variation(call.result, lens) :
                              lens \in [1..Len(call.result) -> ParaLengthRange(call.intensity)] } :
         \E p \in PassDraws(req, humanized, W.draws) :
           /\ Returned(req, Techniques(call), call.text,
                       [raised |-> "none", humanized |-> humanized], p)
           /\ fault' = IF req.kind = "single" /\ req.cache /\ cache_enabled /\ ~p.stored
                       THEN "setex" ELSE fault
    /\ call' = NoCall
    /\ UNCHANGED <<initialized, engines, cache_enabled, workers, req, trace, step, gate,
                   embed_calls>>

(***************************************************************************)
(* Specifications                                                          *)
(***************************************************************************)
Next(W) ==
    \/ Initialize(W)
    \/ HumanizeText(W)
    \/ HumanizeBatch(W)
    \/ Gather(W)
    \/ Paraphrase(W)
    \/ VarySentence(W)
    \/ ModulatePerplexity(W)
    \/ InjectStyle(W)
    \/ AddHumanPatterns(W)
    \/ Transition(W)
    \/ CheckSemantics(W)
    \/ Compose(W)

\* A workload names the sets the inputs are taken from: the requests clients
\* send, the values the random source returns and whether each provider call
\* succeeds.
Requests ==
    [redis |-> {FALSE},
     builds |-> 0..Len(Modes),
     loads |-> BOOLEAN,
     encodes |-> BOOLEAN,
     tags |-> BOOLEAN,
     texts |-> {<<>>, Str("Go.")},
     batch_texts |-> {<<>>, Str("Go.")},
     modes |-> {"fast", "balanced", "quality", "turbo"},
     intensities |-> {Unit},
     overrides |-> {NoOverride, <<"human_patterns", "semantic_paraphrasing">>},
     cache_flags |-> {FALSE},
     draws |-> {1200, NoDraw}]

Spec == Init(Requests) /\ [][Next(Requests)]_vars

\* One tier, started without a fault, on texts the techniques act on.
Sentences ==
    [redis |-> {FALSE},
     builds |-> {Len(Modes)},
     loads |-> {TRUE},
     encodes |-> {TRUE},
     tags |-> BOOLEAN,
     texts |-> {Str(" "), Str("Oh, big.")},
     batch_texts |-> {Str("Go.")},
     modes |-> {"quality"},
     intensities |-> {Unit},
     overrides |-> {NoOverride},
     cache_flags |-> {FALSE},
     draws |-> {0, 1200, NoDraw}]

SpecSentences == Init(Sentences) /\ [][Next(Sentences)]_vars

\* Requests at intensity 0, with draws that include 0.
Zero ==
    [redis |-> {FALSE},
     builds |-> {Len(Modes)},
     loads |-> {TRUE},
     encodes |-> {TRUE},
     tags |-> {TRUE},
     texts |-> {Str("Oh,  big.")},
     batch_texts |-> {Str("Go. On.")},
     modes |-> {"fast", "balanced", "quality"},
     intensities |-> {0},
     overrides |-> {NoOverride},
     cache_flags |-> {FALSE},
     draws |-> {0, NoDraw}]

SpecZero == Init(Zero) /\ [][Next(Zero)]_vars

\* Requests with Redis connected: keys that two requests share because the
\* key content is the text, the mode and the intensity joined by colons.
Cached ==
    [redis |-> {TRUE},
     builds |-> {Len(Modes)},
     loads |-> {TRUE},
     encodes |-> BOOLEAN,
     tags |-> BOOLEAN,
     texts |-> {Str("a:b"), Str("a")},
     batch_texts |-> {Str("a")},
     modes |-> {"fast", "quality", "b:fast"},
     intensities |-> {5000},
     overrides |-> {NoOverride},
     cache_flags |-> BOOLEAN,
     draws |-> {NoDraw}]

SpecCache == Init(Cached) /\ [][Next(Cached)]_vars

\* The splitter on its own: requests to the fast tier for every text of at
\* most MaxLen characters of W.alphabet; the engine call holds the text and
\* its sentences.
Splits ==
    [redis |-> {FALSE},
     builds |-> {Len(Modes)},
     loads |-> {TRUE},
     encodes |-> {TRUE},
     tags |-> {TRUE},
     texts |-> ListsUpTo({"a", ".", "!", " "}, MaxLen),
     batch_texts |-> {Str("a")},
     modes |-> {"fast"},
     intensities |-> {5000},
     overrides |-> {NoOverride},
     cache_flags |-> {FALSE},
     draws |-> {NoDraw}]

\* the service after initialize, no request received yet
InitSplit(W) ==
    /\ initialized = TRUE
    /\ engines = [m \in ModeSet |-> NewEngine(m)]
    /\ cache_enabled \in W.redis
    /\ cache = <<>>
    /\ pc = "idle"
    /\ req = NoRequest
    /\ call = NoCall
    /\ items = <<>>
    /\ resp = NoResponse
    /\ trace = <<>>
    /\ step = NoStep
    /\ gate = NoGate
    /\ embed_calls = 0
    /\ fault = "none"
    /\ workers = IdleWorkers

NextSplit(W) == HumanizeText(W)

SpecSplit == InitSplit(Splits) /\ [][NextSplit(Splits)]_vars

\* Concurrent calls of HumanizerEngine.humanize on the engine of
\* FastHumanizer, each in a thread of its own (humanize_async hands the call
\* to a ThreadPoolExecutor).  That engine is constructed as the fast tier's
\* is, and engines["fast"] stands for it.  One step of thread t:
\*   idle  -> test     the call is submitted
\*   test  -> ...      humanize: `if not self.models_loaded`
\*   guard -> ...      _load_models: `if self.models_loaded: return`
\*   load  -> run      the loading body ends: `self.models_loaded = True`
\*   run   -> idle     the pipeline, from _split_sentences to the return
HumanizeStep(t) ==
    LET loaded == engines["fast"].models_loaded
        goes(to) == workers' = [workers EXCEPT !.at[t] = to]
    IN /\ \/ /\ workers.at[t] = "idle"
             /\ goes("test")
             /\ UNCHANGED engines
          \/ /\ workers.at[t] = "test"
             /\ goes(IF loaded THEN "run" ELSE "guard")
             /\ UNCHANGED engines
          \/ /\ workers.at[t] = "guard"
             /\ IF loaded
                THEN goes("run")
                ELSE workers' = [workers EXCEPT !.at[t] = "load", !.runs = @ + 1]
             /\ UNCHANGED engines
          \/ /\ workers.at[t] = "load"
             /\ goes("run")
             /\ engines' = [engines EXCEPT !["fast"].models_loaded = TRUE]
          \/ /\ workers.at[t] = "run"
             /\ goes("idle")
             /\ UNCHANGED engines
       /\ UNCHANGED <<initialized, cache_enabled, cache, pc, req, call, items, resp,
                      trace, step, gate, embed_calls, fault>>

NextLoad == \E t \in 1..MaxWorkers : HumanizeStep(t)

SpecLoad == InitSplit(Splits) /\ [][NextLoad]_vars

\* sentence_variation on its own: fast requests of a started service whose
\* text is one sentence of sixteen words with x as its sixth and y as its
\* ninth (the word at the midpoint index 8), or the fifteen-word sentence
\* without the first word.
Long ==
    [redis |-> {FALSE},
     builds |-> {Len(Modes)},
     loads |-> {TRUE},
     encodes |-> {TRUE},
     tags |-> {TRUE},
     texts |-> LET a == Str("a")
                   words(x, y) == <<a, a, a, a, a, x, a, a, y, a, a, a, a, a, a, Str("a.")>>
                   marks == {a, Str("and"), Str("but"), Str(",")}
               IN { PyJoin(Str(" "), words(x, y)) : x \in marks, y \in marks }
                    \cup { PyJoin(Str(" "), Tail(words(x, y))) : x \in marks, y \in marks },
     batch_texts |-> {Str("a")},
     modes |-> {"fast"},
     intensities |-> {Unit},
     overrides |-> {NoOverride},
     cache_flags |-> {FALSE},
     draws |-> {0, NoDraw}]

NextVary(W) ==
    \/ HumanizeText(W)
    \/ VarySentence(W)
    \/ AddHumanPatterns(W)

SpecVary == InitSplit(Long) /\ [][NextVary(Long)]_vars

\* human_patterns on sentences of three, four and five words, one of them
\* with a phrase to contract.
Patterned ==
    [redis |-> {FALSE},
     builds |-> {Len(Modes)},
     loads |-> {TRUE},
     encodes |-> {TRUE},
     tags |-> {TRUE},
     texts |-> {Str("a b c."), Str("it is a b."), Str("a b c d e.")},
     batch_texts |-> {Str("a")},
     modes |-> {"fast"},
     intensities |-> {Unit},
     overrides |-> {NoOverride},
     cache_flags |-> {FALSE},
     draws |-> {0, NoDraw}]

SpecPatterns == InitSplit(Patterned) /\ [][NextVary(Patterned)]_vars

\* The composer and the passes of the caller on their own: an engine call of
\* a started service that has closed its last sentence, for every text made
\* of at most W.longest of W.sentences, no technique having changed any.
ComposerFrame(text, intensity) ==
    LET entered == EnterHumanize("quality", ConstructedTechniques("quality"), text,
                                 intensity, FALSE, FALSE)
        n == Len(entered.sentences)
    IN IF n = 0 THEN entered
       ELSE [entered EXCEPT !.result = entered.sentences, !.i = n - 1,
                            !.sentence = entered.sentences[n], !.stage = "compose"]

InitCompose(W) ==
    /\ initialized = TRUE
    /\ engines = [m \in ModeSet |-> [NewEngine(m) EXCEPT !.models_loaded = TRUE]]
    /\ cache_enabled = FALSE
    /\ cache = <<>>
    /\ pc = "call"
    /\ \E l \in ListsUpTo(W.sentences, W.longest), intensity \in W.intensities :
         /\ req = [kind |-> "single", mode |-> "quality", intensity |-> intensity,
                   preserve_meaning |-> FALSE, techniques |-> NoOverride,
                   cache |-> FALSE, texts |-> <<PyJoin(Str(" "), l)>>]
         /\ call = ComposerFrame(PyJoin(Str(" "), l), intensity)
         /\ gate = [NoGate EXCEPT !.i = Len(l) - 1]
    /\ items = <<>>
    /\ resp = NoResponse
    /\ trace = <<>>
    /\ step = NoStep
    /\ embed_calls = 0
    /\ fault = "none"
    /\ workers = IdleWorkers

NextCompose(W) == Compose(W)

Composed ==
    [sentences |-> {Str("A."), Str("B - c!")},
     longest |-> MaxSentences,
     intensities |-> {5000, 8000, Unit},
     draws |-> {0, NoDraw}]

SpecCompose == InitCompose(Composed) /\ [][NextCompose(Composed)]_vars

\* Texts long enough for a paragraph of the greatest length to be followed
\* by another: up to MaxParagraphed times the same sentence, at intensity
\* 0.5, just above it and 1.
Paragraphed ==
    [sentences |-> {Str("A.")},
     longest |-> MaxParagraphed,
     intensities |-> {5000, 5001, Unit},
     draws |-> {0, NoDraw}]

SpecParagraphs == InitCompose(Paragraphed) /\ [][NextCompose(Paragraphed)]_vars

(***************************************************************************)
(* Properties                                                              *)
(***************************************************************************)
\* C1: whatever requests were served, with or without a technique override,
\* every tier's engine holds the technique list it was constructed with.
C1_EnginesKeepTechniques ==
    \A m \in ModeSet :
        engines[m].exists => engines[m].techniques = ConstructedTechniques(m)

\* C2: a request in which a technique raised on some sentence still ends with
\* a successful response.
C2_TechniqueFaultTolerated ==
    (pc = "done" /\ req.kind = "single" /\ fault \in {"IndexError", "tagger"})
        => resp.status = 200

\* C3: a batch in which the processing of one text failed still ends with a
\* successful response that has a pair for every text that did not fail.
C3_BatchSurvivesFailure ==
    (pc = "done" /\ req.kind = "batch"
       /\ \E k \in 1..Len(items) : items[k].raised # "none")
        => /\ resp.status = 200
           /\ \A j \in 1..Len(items) :
                items[j].raised = "none"
                    => \E n \in 1..Len(resp.results) :
                         /\ resp.results[n].original = items[j].input
                         /\ resp.results[n].humanized = items[j].humanized

\* C4: a successful batch response has one pair per input text, in the order
\* of the input: the k-th pair holds the k-th text and the output computed
\* from it.
C4_BatchPairsInOrder ==
    (pc = "done" /\ req.kind = "batch" /\ resp.status = 200)
        => /\ Len(resp.results) = Len(req.texts)
           /\ Len(items) = Len(req.texts)
           /\ \A k \in 1..Len(req.texts) :
                /\ resp.results[k].original = req.texts[k]
                /\ items[k].input = req.texts[k]
                /\ resp.results[k].humanized = items[k].humanized

\* a batch of two different texts answered with two pairs
C4_Witness ==
    /\ pc = "done" /\ req.kind = "batch" /\ resp.status = 200
    /\ Len(resp.results) = 2
    /\ resp.results[1].original # resp.results[2].original
    /\ resp.results[2].humanized # resp.results[2].original

\* C5: the engine call made for a text of a batch takes the path, and checks
\* the meaning, as the call of a single request for the same tier does.
C5_BatchAsSingle ==
    (pc = "call" /\ req.kind = "batch")
        => /\ call.fast_mode = (req.mode = "fast")
           /\ call.stage \in {"semantic_paraphrasing", "gate"}
                  => req.mode \in {"balanced", "quality"}

\* C6: every technique applied to a sentence comes later in the sequence
\* semantic_paraphrasing, sentence_variation, perplexity_modulation,
\* stylistic_injection, human_patterns than those applied to it before, whatever
\* the order of the engine's list, and it is given what the previous one
\* returned (the sentence as split, for the first).
C6_FixedOrderChained ==
    [][(pc = "call" /\ trace' # trace /\ trace' # <<>>)
         => LET order == <<"semantic_paraphrasing", "sentence_variation",
                           "perplexity_modulation", "stylistic_injection",
                           "human_patterns">>
                place(n) == CHOOSE k \in 1..Len(order) : order[k] = n
            IN /\ Len(trace') = Len(trace) + 1
               /\ SubSeq(trace', 1, Len(trace)) = trace
               /\ \A a \in 1..Len(trace) :
                    place(trace[a]) < place(trace'[Len(trace')])
               /\ step'.input = (IF trace = <<>> THEN call.sentences[call.i + 1]
                                 ELSE step.output)
               /\ call'.sentence = step'.output]_vars

\* paraphrasing changed the sentence and human_patterns, first in the engine's
\* list, was applied after it to what it returned
C6_Witness ==
    /\ pc = "call"
    /\ trace = <<"semantic_paraphrasing", "human_patterns">>
    /\ engines[call.engine].techniques[1] = "human_patterns"
    /\ step.input # call.sentences[call.i + 1]
    /\ step.output # step.input

\* C7: in a humanize request the semantic check of a closed sentence ran if and
\* only if preserve_meaning was requested and the tier is not fast, and only
\* such a request calls the sentence encoder.
C7_GateIffPreserveNotFast ==
    LET wanted == req.kind = "single" /\ req.preserve_meaning /\ req.mode # "fast"
    IN /\ gate.ran => wanted
       /\ (req.kind = "single" /\ gate.i >= 0 /\ wanted) => gate.ran
       /\ embed_calls > 0 => wanted
       /\ (pc = "call" /\ wanted) => embed_calls = 1 + Len(call.result)

\* a sentence of a balanced request was checked and reverted
C7_Witness ==
    /\ req.kind = "single" /\ req.mode = "balanced" /\ req.preserve_meaning
    /\ gate.ran /\ gate.i = 0 /\ gate.similarity < 70
    /\ embed_calls = 2

\* C8: when the check finds a similarity below 0.7, the sentence appended is
\* human_patterns applied once to the original sentence at half the intensity
\* of the request; otherwise it is the mutated sentence.
C8_GateFallback ==
    [][(pc = "call" /\ call.stage = "gate" /\ pc' = "call" /\ gate'.ran)
         => LET final == call'.result[Len(call'.result)]
            IN /\ Len(call'.result) = Len(call.result) + 1
               /\ IF gate'.similarity < 70
                  THEN final = _add_human_patterns(call.sentences[call.i + 1],
                                                   call.intensity \div 2, gate'.draws)
                  ELSE final = call.sentence]_vars

\* a mutated sentence was discarded and the original kept as it was: the draw
\* of the personal touch is below the chance at the intensity of the request
\* but not at half of it
C8_Witness ==
    /\ pc = "call" /\ call.stage = "compose" /\ gate.ran /\ gate.similarity < 70
    /\ gate.draws.touch = 1200
    /\ call.result[1] = call.sentences[1]
    /\ call.intensity = Unit

\* C9: a humanize request for the empty string, on a started service with a
\* valid tier whose models load and whose encoder answers, is answered with
\* the empty string.
C9_EmptyInEmptyOut ==
    (pc = "done" /\ req.kind = "single" /\ req.texts = <<<<>>>>
       /\ fault \notin {"RuntimeError", "ValueError", "load", "encode"})
        => /\ resp.status = 200
           /\ resp.humanized_text = <<>>
           /\ resp.original_text = <<>>

\* the empty string went through the full path with the meaning preserved
C9_Witness ==
    /\ pc = "done" /\ req.kind = "single" /\ req.texts = <<<<>>>>
    /\ req.mode = "quality" /\ req.preserve_meaning /\ req.intensity = Unit
    /\ resp.status = 200 /\ resp.humanized_text = <<>>

C11_ZeroIntensityIdentity ==
    (pc = "call" /\ call.intensity = 0 /\ ~call.preserve_meaning)
        => /\ \A k \in 1..Len(call.result) : call.result[k] = call.sentences[k]
           /\ call.stage # "compose" => call.sentence = call.sentences[call.i + 1]

\* C12: whatever paragraph lengths are drawn, the composed text is the
\* entries in their order, each once, every two neighbours separated by one
\* space or by a double line break, and by one space everywhere when a single
\* paragraph results.
C12_ComposerKeepsSentences ==
    (pc = "call" /\ call.stage = "compose")
        => \A lens \in [1..Len(call.result) -> ParaLengthRange(call.intensity)] :
             LET entries == call.result
                 n == Len(entries)
                 out == _create_paragraph_variation(entries, lens)
                 RECURSIVE Laid(_, _)
                 Laid(k, seps) ==
                     IF k > n THEN <<>>
                     ELSE entries[k] \o (IF k < n THEN seps[k] ELSE <<>>) \o Laid(k + 1, seps)
                 breaks(seps) == {k \in 1..(n - 1) : seps[k] = <<"\n", "\n">>}
                 fits(seps) == out = Laid(1, seps)
             IN /\ \E seps \in [1..(n - 1) -> {<<" ">>, <<"\n", "\n">>}] : fits(seps)
                /\ \A seps \in [1..(n - 1) -> {<<" ">>, <<"\n", "\n">>}] :
                     fits(seps) /\ Len(Paragraphs(entries, lens)) <= 1 => breaks(seps) = {}
                /\ n = 0 => out = <<>>

\* four entries were composed into two paragraphs of two
C12_Witness ==
    /\ pc = "done" /\ resp.status = 200 /\ req.intensity = 8000
    /\ resp.humanized_text = Str("A. A.\n\nA. A.")

\* C13: a request whose tier is none of fast, balanced, quality, received by
\* a started service, is answered with status 400, without a humanized text
\* and without an engine call, whatever the cache holds.
C13_InvalidTierRejected ==
    (req.kind = "single" /\ req.mode \notin ModeSet /\ fault # "RuntimeError")
        => /\ pc # "call"
           /\ pc = "done" => resp.status = 400 /\ resp.humanized_text = <<>>

\* C14: the semantic_paraphrasing step with a failing provider gives back the
\* sentence it was given, whatever the trigger draw; the step never leaves
\* the engine call: the sentence goes on to the next stage, holding the
\* sentence given or a text of the provider.
C14_ParaphraseFailureFallsBack ==
    [][(pc = "call" /\ call.stage = "semantic_paraphrasing")
          => /\ \A r \in {0, call.intensity, NoDraw} :
                  _paraphrase_sentence(Current(call), call.intensity, r, ProviderFailure)
                      = Current(call)
             /\ pc' = "call" /\ fault' = "none"
             /\ call'.i = call.i /\ call'.result = call.result
             /\ call'.stage = StageAfter(call.fast_mode, Techniques(call),
                                         PositionIn(PathOrder(call.fast_mode),
                                                    "semantic_paraphrasing"))
             /\ call'.sentence \in {Current(call)} \cup (ParaphraseOutcomes \ {ProviderFailure})
      ]_vars

\* at intensity 1 the technique always triggers: the sentence came back as
\* given, and it is no text of the provider, so the provider failed; the
\* chain went on to sentence_variation
C14_Witness ==
    /\ pc = "call" /\ call.intensity = Unit
    /\ trace # <<>> /\ trace[Len(trace)] = "semantic_paraphrasing"
    /\ step.output = step.input
    /\ step.input \notin ParaphraseOutcomes
    /\ call.stage = "sentence_variation"

\* C15: a request in which the embedding provider or the tagger failed still
\* ends with a successful response carrying the humanized text of its
\* sentences; no error status reaches the caller.
C15_ProviderFailureRecovered ==
    (req.kind = "single" /\ fault \in {"encode", "tagger"})
        => /\ pc \in {"call", "done"}
           /\ pc = "done" => /\ resp.status = 200
                             /\ (_split_sentences(req.texts[1]) # <<>>
                                    => resp.humanized_text # <<>>)

\* C16: the text of a successful response is the composed text after the
\* punctuation pass, and after the insertion pass too exactly when the
\* intensity is above 0.8: no " - " is left in it, and at intensity 0.8 or
\* below it holds no zero-width space.
C16_GlobalPasses ==
    [][(pc = "call" /\ call.stage = "compose" /\ req.kind = "single"
          /\ pc' = "done" /\ resp'.status = 200)
          => LET out == resp'.humanized_text
                 composable ==
                     { _create_paragraph_variation(call.result, lens) :
                         lens \in [1..Len(call.result) -> ParaLengthRange(call.intensity)] }
             IN /\ \E composed \in composable,
                      r1 \in Composed.draws, r2 \in Composed.draws, r3 \in Composed.draws :
                      LET varied == vary_punctuation(composed, r1, r2)
                      IN out = IF req.intensity > 8000
                               THEN add_unicode_variations(varied, r3)
                               ELSE varied
                /\ ~PyContains(out, Str(" - "))
                /\ req.intensity <= 8000 => ~PyContains(out, <<ZWSP>>)
      ]_vars

\* at intensity 1 both passes acted: the dash was varied and a zero-width
\* space inserted after the first space
C16_Witness ==
    /\ pc = "done" /\ resp.status = 200 /\ req.intensity = Unit
    /\ req.texts[1] = Str("B - c!")
    /\ resp.humanized_text = <<"B", " ", ZWSP, EmDash, " ", "c", "!">>

\* C17: the engine is called for a request with caching on only when its key
\* is not stored; a response marked cached is the stored one, made without an
\* engine call and without a write; the cache changes only at the end of a
\* successful engine call of such a request, by the response being stored
\* under the key of its text, tier and intensity, which happens unless the
\* Redis write raises; a request that fails leaves the cache as it was.
C17_CacheReadBeforeWrittenAfter ==
    [][LET key(r) == generate_key(r.texts[1], r.mode, r.intensity)
           caching(r) == r.kind = "single" /\ r.cache /\ cache_enabled
           composing == pc = "call" /\ call.stage = "compose"
       IN /\ (pc = "call" /\ caching(req)) => key(req) \notin DOMAIN cache
          /\ (resp'.cached /\ resp' # resp)
                => /\ pc \in {"idle", "done"} /\ pc' = "done"
                   /\ caching(req')
                   /\ key(req') \in DOMAIN cache
                   /\ resp' = [cache[key(req')] EXCEPT !.cached = TRUE]
                   /\ trace' = <<>> /\ call' = NoCall /\ cache' = cache
          /\ cache' # cache
                => /\ composing /\ caching(req)
                   /\ pc' = "done" /\ resp'.status = 200
                   /\ cache' = CacheSet(cache, key(req), resp')
          /\ (composing /\ caching(req) /\ fault' # "setex")
                => cache' = CacheSet(cache, key(req), resp')
          /\ (pc' = "done" /\ resp'.status # 200) => cache' = cache
      ]_vars

\* a quality request was answered from the cache with the response stored
\* for its own text
C17_Witness ==
    /\ pc = "done" /\ req.kind = "single" /\ req.mode = "quality" /\ req.cache
    /\ resp.cached /\ resp.status = 200
    /\ resp.original_text = req.texts[1] /\ resp.mode = req.mode
    /\ trace = <<>>

\* C18: when the chain of a sentence of a request with a technique override
\* is over, the techniques that ran are those of the override list, in
\* every tier.
C18_OverrideRunsAsListed ==
    (pc = "call" /\ req.kind = "single" /\ req.techniques # NoOverride
       /\ call.stage \in {"gate", "transition"})
        => { trace[k] : k \in 1..Len(trace) } \cap { FullOrder[k] : k \in 1..Len(FullOrder) }
               = { req.techniques[k] : k \in 1..Len(req.techniques) }

\* C19: when the chain of a sentence of a request without override is over,
\* the techniques that ran are those of the request's tier: sentence_variation
\* and human_patterns for fast, these and semantic_paraphrasing for balanced,
\* all five for quality; the fast tier closes the sentence without the gate,
\* the other two with the gate active exactly when preserve_meaning is asked.
C19_TierPolicyTable ==
    (pc = "call" /\ req.kind = "single" /\ req.techniques = NoOverride
       /\ call.stage \in {"gate", "transition"})
        => /\ { trace[k] : k \in 1..Len(trace) }
                 = CASE req.mode = "fast" -> {"sentence_variation", "human_patterns"}
                     [] req.mode = "balanced" ->
                          {"sentence_variation", "human_patterns", "semantic_paraphrasing"}
                     [] req.mode = "quality" -> { FullOrder[k] : k \in 1..Len(FullOrder) }
           /\ call.stage = "transition" <=> req.mode = "fast"
           /\ call.stage = "gate" => (GateActive(call) <=> req.preserve_meaning)

\* C20: the sentences of a text are its fragments between the positions where
\* '.', '!' or '?' is followed by whitespace, trimmed, in the order of the
\* text, without those that are blank: none is empty, none begins or ends
\* with whitespace, and the empty text has none.
C20_SplitAtBoundaries ==
    pc = "call"
        => LET t == call.text
               n == Len(t)
               ss == call.sentences
               ends == { k \in 1..n : k = n \/ (t[k] \in {".", "!", "?"} /\ IsSpace(t[k + 1])) }
               start(e) == LET before == { k \in ends : k < e }
                           IN IF before = {} THEN 1
                              ELSE 1 + CHOOSE k \in before : \A l \in before : l <= k
               frag(e) == PyStrip(SubSeq(t, start(e), e))
               kept == { e \in ends : frag(e) # <<>> }
               nth(j) == CHOOSE e \in kept : Cardinality({ f \in kept : f <= e }) = j
           IN /\ Len(ss) = Cardinality(kept)
              /\ \A j \in 1..Len(ss) :
                   /\ ss[j] = frag(nth(j))
                   /\ ss[j] # <<>>
                   /\ ~IsSpace(ss[j][1]) /\ ~IsSpace(ss[j][Len(ss[j])])
                   /\ \A k \in 1..(Len(ss[j]) - 1) :
                        ~(ss[j][k] \in {".", "!", "?"} /\ IsSpace(ss[j][k + 1]))
              /\ n = 0 => ss = <<>>

\* a text with one boundary was split in two
C20_Witness ==
    /\ pc = "call"
    /\ call.text = Str("a! a")
    /\ call.sentences = <<Str("a!"), Str("a")>>

\* C21: while _initialized is false get_humanizer raises for every mode and no
\* engine call is in progress, also when initialize constructed only some of
\* the engines; once it is true it stays true, the three engines exist and
\* none is replaced by a new one, and initialize changes nothing.
C21_TwoPhaseLifecycle ==
    [][/\ ~initialized
            => /\ \A mode \in Requests.modes : get_humanizer(mode) = "RuntimeError"
               /\ pc \notin {"call", "gather"}
               /\ call = NoCall
       /\ initialized
            => /\ initialized'
               /\ \A m \in ModeSet :
                    /\ engines[m].exists /\ engines'[m].exists
                    /\ engines[m].models_loaded => engines'[m].models_loaded
               /\ Initialize(Requests) => UNCHANGED vars
       /\ initialized' => \A m \in ModeSet : engines'[m].exists
      ]_vars

\* initialize failed after constructing the fast engine, and the request that
\* followed was refused
C21_Witness ==
    /\ ~initialized
    /\ engines["fast"].exists /\ ~engines["quality"].exists
    /\ pc = "done" /\ req.mode = "fast" /\ fault = "RuntimeError" /\ resp.status = 500

\* C22: whatever paragraph lengths are drawn, every paragraph built but the
\* last holds 2 to 5 sentences when the intensity is above 0.5 and 3 to 6
\* otherwise, and the last holds 1 up to the same greatest number.  (Every
\* entry of the texts composed here has one sentence-final mark, which is
\* what is counted.)
C22_ParagraphLengths ==
    (pc = "call" /\ call.stage = "compose")
        => \A lens \in [1..Len(call.result) -> ParaLengthRange(call.intensity)] :
             LET built == Paragraphs(call.result, lens)
                 held(p) == Cardinality({ k \in 1..Len(p) : p[k] \in {".", "!", "?"} })
                 least == IF call.intensity > 5000 THEN 2 ELSE 3
                 most == IF call.intensity > 5000 THEN 5 ELSE 6
             IN \A j \in 1..Len(built) :
                  /\ held(built[j]) <= most
                  /\ held(built[j]) >= (IF j < Len(built) THEN least ELSE 1)

\* at intensity 0.5 seven sentences were composed into a paragraph of six and
\* a paragraph of one
C22_Witness ==
    /\ pc = "done" /\ resp.status = 200 /\ req.intensity = 5000
    /\ resp.humanized_text = Str("A. A. A. A. A. A.\n\nA.")

\* C23: sentence_variation leaves a sentence of 15 words or fewer unsplit, and
\* one without a conjunction or comma word near the midpoint index; when it
\* splits a longer one, it does so at such a word nearest to the midpoint
\* index: the words before it, ". ", and the words after it capitalized.
C23_SplitNearestMidpoint ==
    (pc = "call" /\ call.stage = "sentence_variation")
        => LET cur == Current(call)
               words == PySplit(cur)
               n == Len(words)
               mid == n \div 2
               dist(i) == IF i - 1 >= mid THEN i - 1 - mid ELSE mid - (i - 1)
               near == { i \in 1..n : words[i] \in SplitTokens /\ dist(i) <= 3 }
               nearest == { i \in near : \A j \in near : dist(i) <= dist(j) }
               halves(i) == PyJoin(Str(" "), SubSeq(words, 1, i - 1)) \o Str(". ")
                              \o PyCapitalize(PyJoin(Str(" "), SubSeq(words, i + 1, n)))
           IN \A r1 \in Long.draws :
                LET out == _vary_sentence_structure(cur, call.intensity, r1, NoDraw)
                IN /\ n <= 15 => out = cur
                   /\ near = {} => out = cur
                   /\ out # cur => \E i \in nearest : out = halves(i)

\* C24: whatever its draws, human_patterns returns the sentence after the
\* filler insertion, then the contractions, then the imperfections, then the
\* personal touch, each under its own trigger draw; an inserted filler stands
\* after the first word and before the last word of the sentence, and no
\* word of it is the first or the last word of the result.
C24_PatternsInOrderFillerInside ==
    (pc = "call" /\ call.stage = "human_patterns")
        => \A d \in PatternDraws(Current(call), call.intensity, Patterned.draws) :
             LET cur == Current(call)
                 words == PySplit(cur)
                 n == Len(words)
                 filler == fillers[d.filler]
                 inserted == Below(d.fill, call.intensity, 20) /\ n > 3
                 s1 == IF inserted
                       THEN PyJoin(Str(" "), SubSeq(words, 1, d.pos) \o <<filler>>
                                               \o SubSeq(words, d.pos + 1, n))
                       ELSE cur
                 s2 == IF Below(d.contr, call.intensity, 40) THEN Contract(s1, 1) ELSE s1
                 s3 == IF Below(d.imp, call.intensity, 5)
                       THEN Imperfect(s2, 1, d.chances) ELSE s2
                 s4 == IF Below(d.touch, call.intensity, 15)
                       THEN personal_touches[d.phrase] \o Str(", ") \o PyLower(s3)
                       ELSE s3
                 out == _add_human_patterns(cur, call.intensity, d)
                 ow == PySplit(out)
                 fw == { PySplit(filler)[k] : k \in 1..Len(PySplit(filler)) }
             IN /\ out = s4
                /\ inserted
                     => /\ d.pos >= 1 /\ d.pos <= n - 1
                        /\ PySplit(s1)[1] = words[1]
                        /\ PySplit(s1)[Len(PySplit(s1))] = words[n]
                        /\ ow[1] \notin fw /\ ow[Len(ow)] \notin fw

\* all four edits acted, in their order: the filler before the last word,
\* "it is" contracted, "it's" misspelt, the touch in front
C24_Witness ==
    /\ pc = "call" /\ trace # <<>> /\ trace[Len(trace)] = "human_patterns"
    /\ step.input = Str("it is a b.")
    /\ step.output = Str("I'd say, its a kind of b.")

\* C25: whatever tokens and tags the tagger returns for the sentence and
\* whatever the draws, perplexity_modulation returns a sentence, with the
\* words of the one it was given, except that a word whose lowercase form is
\* a key of the synonym table may have become one of the key's synonyms.
C25_PerplexityOnlySynonyms ==
    (pc = "call" /\ call.stage = "perplexity_modulation")
        => \A doc \in TaggerDocs(Current(call)) :
             \A draws \in PerplexityDraws(doc, Sentences.draws), picks \in PerplexityPicks(doc) :
               LET words == PySplit(Current(call))
                   out == _modulate_perplexity(Current(call), call.intensity, doc, draws, picks)
                   ow == PySplit(out)
               IN /\ out # IndexError
                  /\ Len(ow) = Len(words)
                  /\ \A k \in 1..Len(words) :
                       ow[k] # words[k]
                           => \E j \in 1..Len(_get_simple_synonyms(words[k])) :
                                ow[k] = _get_simple_synonyms(words[k])[j]

\* C26: a response taken from the cache was made for a request with the
\* preserve_meaning of the request that receives it: it carries a similarity
\* score, which is computed only for a request with preserve_meaning on,
\* only if the receiving request has preserve_meaning on.
C26_CacheEntryNotShared ==
    (pc = "done" /\ req.kind = "single" /\ resp.status = 200 /\ resp.cached)
        => (resp.similarity_score = "score" => req.preserve_meaning)

\* C27: whatever the interleaving of the threads, the loading body of
\* _load_models has been executed at most once for the engine, and a thread
\* is in the pipeline only when models_loaded is true.
C27_ModelsLoadedOnce ==
    /\ workers.runs <= 1
    /\ \A t \in 1..MaxWorkers :
         workers.at[t] = "run" => engines["fast"].models_loaded

====
